---- MODULE Spec2Model ----
(***************************************************************************)
(* The value (de)serialization layer of fxoanda.                           *)
(*                                                                         *)
(* fxoanda_serdes::serints encodes an Option<i32> as a JSON string and     *)
(* decodes it from a JSON string or a JSON number; fxoanda_serdes::serdates*)
(* does the same for an Option<DateTime<Utc>> and RFC3339 strings.         *)
(*                                                                         *)
(* Text is a sequence of one-character strings, so that formatting and     *)
(* parsing are computed character by character.  An Option is a sequence   *)
(* of length 0 (None) or 1 (Some).                                         *)
(***************************************************************************)
EXTENDS Integers, Sequences, FiniteSets, TLC

VARIABLES codec, pc, origin, value, json, result, first, rounds, client, calls

codecVars == <<codec, pc, origin, value, json, result, first, rounds>>

remoteVars == <<client, calls>>

vars == <<codec, pc, origin, value, json, result, first, rounds, client, calls>>

(***************************************************************************)
(* Bounds of the model.                                                    *)
(***************************************************************************)
\* JSON strings of every length up to MaxStrLen over Alphabet are decoded.
MaxStrLen == 3
\* The integers -MaxAbs..MaxAbs are encoded, and decoded as JSON numbers.
MaxAbs == 12
\* The MaxEdge + 1 integers at each end of the i32 range are encoded too.
MaxEdge == 3
\* Number of leading zeros put in front of the digit strings near the range ends.
MaxLeadingZeros == 1
\* How many times a decoded value is encoded again.
MaxRounds == 1

(***************************************************************************)
(* i32                                                                     *)
(***************************************************************************)
I32_MAX == 2147483647
I32_MIN == (-I32_MAX) - 1

None == <<>>
Some(v) == <<v>>

Ok(v) == [ok |-> TRUE, val |-> v, err |-> ""]
Err(msg) == [ok |-> FALSE, val |-> None, err |-> msg]

(***************************************************************************)
(* Characters                                                              *)
(***************************************************************************)
DigitChars == <<"0", "1", "2", "3", "4", "5", "6", "7", "8", "9">>

IsDigit(c) == \E d \in 1..10 : DigitChars[d] = c

to_digit(c) == (CHOOSE d \in 1..10 : DigitChars[d] = c) - 1

(***************************************************************************)
(* i32::to_string: the decimal digits of the magnitude, most significant   *)
(* first, after a "-" when the value is negative.  The magnitude of        *)
(* i32::MIN is 2^31, which the code holds in a u32; here the digits of a   *)
(* negative value are taken from the value itself, last digit first, so    *)
(* that no intermediate value leaves the i32 range.                        *)
(***************************************************************************)
RECURSIVE MagnitudeDigits(_)
MagnitudeDigits(v) ==
    IF v >= 0
    THEN IF v < 10
         THEN <<DigitChars[v + 1]>>
         ELSE MagnitudeDigits(v \div 10) \o <<DigitChars[(v % 10) + 1]>>
    ELSE LET d == (10 - (v % 10)) % 10
             q == (v + d) \div 10
         IN  IF q = 0
             THEN <<DigitChars[d + 1]>>
             ELSE MagnitudeDigits(q) \o <<DigitChars[d + 1]>>

\* Variants of to_string with a slip in the sign: the "-" left out, and a
\* "+" written in front of a positive value.
to_string_nosign(v) == MagnitudeDigits(v)

to_string_plus(v) ==
    IF v > 0 THEN <<"+">> \o MagnitudeDigits(v)
    ELSE IF v = 0 THEN MagnitudeDigits(v) ELSE <<"-">> \o MagnitudeDigits(v)

to_string(v) ==
    IF v >= 0 THEN MagnitudeDigits(v) ELSE <<"-">> \o MagnitudeDigits(v)

(***************************************************************************)
(* str::parse::<i32>: an optional sign, then decimal digits accumulated    *)
(* with checked multiplication and checked addition (subtraction for a     *)
(* negative number).                                                       *)
(***************************************************************************)
EmptyMsg == "cannot parse integer from empty string"
InvalidDigitMsg == "invalid digit found in string"
PosOverflowMsg == "number too large to fit in target type"
NegOverflowMsg == "number too small to fit in target type"

RECURSIVE ParseDigits(_, _, _, _)
ParseDigits(s, i, acc, positive) ==
    IF i > Len(s) THEN Ok(acc)
    ELSE IF ~IsDigit(s[i]) THEN Err(InvalidDigitMsg)
    ELSE LET x == to_digit(s[i])
         IN  IF positive
             THEN IF acc > I32_MAX \div 10 THEN Err(PosOverflowMsg)
                  ELSE IF acc * 10 > I32_MAX - x THEN Err(PosOverflowMsg)
                  ELSE ParseDigits(s, i + 1, acc * 10 + x, positive)
             ELSE IF acc < -(I32_MAX \div 10) THEN Err(NegOverflowMsg)
                  ELSE IF acc * 10 < I32_MIN + x THEN Err(NegOverflowMsg)
                  ELSE ParseDigits(s, i + 1, acc * 10 - x, positive)

\* Variants of parse with a slip: one that clamps an out-of-range number to
\* the nearest end of the range, one that skips leading spaces.
Saturate(p) ==
    IF p.err = PosOverflowMsg THEN Ok(I32_MAX)
    ELSE IF p.err = NegOverflowMsg THEN Ok(I32_MIN) ELSE p

parse_i32_saturating(s) ==
    IF Len(s) = 0 THEN Err(EmptyMsg)
    ELSE IF Len(s) = 1 /\ s[1] \in {"+", "-"} THEN Err(InvalidDigitMsg)
    ELSE IF s[1] = "+" THEN Saturate(ParseDigits(s, 2, 0, TRUE))
    ELSE IF s[1] = "-" THEN Saturate(ParseDigits(s, 2, 0, FALSE))
    ELSE Saturate(ParseDigits(s, 1, 0, TRUE))

RECURSIVE TrimStart(_)
TrimStart(s) == IF Len(s) > 0 /\ s[1] = " " THEN TrimStart(Tail(s)) ELSE s

parse_i32_trim(s) ==
    LET u == TrimStart(s)
    IN  IF Len(u) = 0 THEN Err(EmptyMsg)
        ELSE IF Len(u) = 1 /\ u[1] \in {"+", "-"} THEN Err(InvalidDigitMsg)
        ELSE IF u[1] = "+" THEN ParseDigits(u, 2, 0, TRUE)
        ELSE IF u[1] = "-" THEN ParseDigits(u, 2, 0, FALSE)
        ELSE ParseDigits(u, 1, 0, TRUE)

\* A variant of parse with a slip: the empty string reported as a bad digit.
parse_i32_noempty(s) ==
    IF Len(s) = 0 THEN Err(InvalidDigitMsg)
    ELSE IF Len(s) = 1 /\ s[1] \in {"+", "-"} THEN Err(InvalidDigitMsg)
    ELSE IF s[1] = "+" THEN ParseDigits(s, 2, 0, TRUE)
    ELSE IF s[1] = "-" THEN ParseDigits(s, 2, 0, FALSE)
    ELSE ParseDigits(s, 1, 0, TRUE)

\* A variant of parse with a slip: a leading "+" is a bad digit.
parse_i32_noplus(s) ==
    IF Len(s) = 0 THEN Err(EmptyMsg)
    ELSE IF Len(s) = 1 /\ s[1] \in {"+", "-"} THEN Err(InvalidDigitMsg)
    ELSE IF s[1] = "-" THEN ParseDigits(s, 2, 0, FALSE)
    ELSE ParseDigits(s, 1, 0, TRUE)

parse_i32(s) ==
    IF Len(s) = 0 THEN Err(EmptyMsg)
    ELSE IF Len(s) = 1 /\ s[1] \in {"+", "-"} THEN Err(InvalidDigitMsg)
    ELSE IF s[1] = "+" THEN ParseDigits(s, 2, 0, TRUE)
    ELSE IF s[1] = "-" THEN ParseDigits(s, 2, 0, FALSE)
    ELSE ParseDigits(s, 1, 0, TRUE)

(***************************************************************************)
(* JSON values.  A value is its kind and its text: the characters of a     *)
(* string, the literal of a number.  The elements of arrays and objects    *)
(* are left out: both codecs reject them whatever they hold.               *)
(***************************************************************************)
JsonNull == [kind |-> "null", text |-> <<>>]
JsonBool(b) == [kind |-> "bool", text |-> IF b THEN <<"t">> ELSE <<"f">>]
JsonNumber(t) == [kind |-> "number", text |-> t]
JsonString(s) == [kind |-> "string", text |-> s]
JsonArray == [kind |-> "array", text |-> <<>>]
JsonObject == [kind |-> "object", text |-> <<>>]

(***************************************************************************)
(* serde_json reads the digits of a number literal into a u64 significand. *)
(* The significand is kept here as its negation, neg, with big set once it *)
(* exceeds 2^31: every value an i32 can take, of either sign, is told      *)
(* apart, and nothing leaves the 32-bit range.                             *)
(***************************************************************************)
RECURSIVE Significand(_, _, _)
Significand(digits, i, sg) ==
    IF i > Len(digits) THEN sg
    ELSE LET x == to_digit(digits[i])
         IN  IF sg.big \/ sg.neg < -(I32_MAX \div 10) \/ sg.neg * 10 < I32_MIN + x
             THEN Significand(digits, i + 1, [big |-> TRUE, neg |-> 0])
             ELSE Significand(digits, i + 1, [big |-> FALSE, neg |-> sg.neg * 10 - x])

IsFloatLiteral(t) == \E i \in 1..Len(t) : t[i] \in {".", "e", "E"}

\* The buffered Content of a JSON number: U64 for a non-negative integer
\* literal, I64 for a negative one, F64 for a literal with a fraction or an
\* exponent and for "-0".
NumberContent(t) ==
    LET positive == t[1] # "-"
        digits == IF positive THEN t ELSE Tail(t)
    IN  IF IsFloatLiteral(t) THEN [kind |-> "F64", big |-> FALSE, neg |-> 0]
        ELSE LET sg == Significand(digits, 1, [big |-> FALSE, neg |-> 0])
             IN  IF positive THEN [kind |-> "U64", big |-> sg.big, neg |-> sg.neg]
                 ELSE IF ~sg.big /\ sg.neg = 0
                      THEN [kind |-> "F64", big |-> FALSE, neg |-> 0]
                      ELSE [kind |-> "I64", big |-> sg.big, neg |-> sg.neg]

NoVariantMsg == "data did not match any variant of untagged enum StringOrInt"

\* A variant of VariantInt with a slip: only unsigned content is taken.
VariantInt_unsigned(j) ==
    IF j.kind # "number" THEN Err("invalid type")
    ELSE LET c == NumberContent(j.text)
         IN  IF c.kind = "U64" /\ ~c.big /\ c.neg >= -I32_MAX THEN Ok(-c.neg)
             ELSE Err("invalid type")

\* StringOrInt::Int(i32) from the buffered content: an integer content that
\* is in the range of i32.
VariantInt(j) ==
    IF j.kind # "number" THEN Err("invalid type")
    ELSE LET c == NumberContent(j.text)
         IN  IF c.kind = "U64"
             THEN IF ~c.big /\ c.neg >= -I32_MAX THEN Ok(-c.neg)
                  ELSE Err("invalid value")
             ELSE IF c.kind = "I64"
             THEN IF ~c.big THEN Ok(c.neg) ELSE Err("invalid value")
             ELSE Err("invalid type")

\* StringOrInt::Str(String) from the buffered content.
VariantStr(j) ==
    IF j.kind = "string" THEN Ok(j.text) ELSE Err("invalid type")

\* #[serde(untagged)] enum StringOrInt { Int(i32), Str(String) }: the
\* variants are tried in the order they are declared.
StringOrInt(j) ==
    IF VariantInt(j).ok THEN [ok |-> TRUE, variant |-> "Int", n |-> VariantInt(j).val, s |-> <<>>]
    ELSE IF VariantStr(j).ok THEN [ok |-> TRUE, variant |-> "Str", n |-> 0, s |-> VariantStr(j).val]
    ELSE [ok |-> FALSE, variant |-> "", n |-> 0, s |-> <<>>]

(***************************************************************************)
(* serints::serialize and serints::deserialize                             *)
(***************************************************************************)
\* A variant of serialize with a slip: None written as the string "0".
serints_serialize_sentinel(v) ==
    IF v # None THEN JsonString(to_string(v[1])) ELSE JsonString(<<"0">>)

\* A variant of serialize with a slip: Some(0) written as null.
serints_serialize_skip_zero(v) ==
    IF v # None /\ v # Some(0) THEN JsonString(to_string(v[1])) ELSE JsonNull

serints_serialize(v) ==
    IF v # None THEN JsonString(to_string(v[1])) ELSE JsonNull

\* Variants of deserialize with a slip: one that takes the string "0" for
\* None, one that takes a value of no variant for None.
serints_deserialize_sentinel(j) ==
    IF j.kind = "null" \/ j = JsonString(<<"0">>) THEN Ok(None)
    ELSE LET e == StringOrInt(j)
         IN  IF ~e.ok THEN Err(NoVariantMsg)
             ELSE IF e.variant = "Int" THEN Ok(Some(e.n))
             ELSE LET p == parse_i32(e.s)
                  IN  IF p.ok THEN Ok(Some(p.val)) ELSE Err(p.err)

serints_deserialize_lenient(j) ==
    IF j.kind = "null" THEN Ok(None)
    ELSE LET e == StringOrInt(j)
         IN  IF ~e.ok THEN Ok(None)
             ELSE IF e.variant = "Int" THEN Ok(Some(e.n))
             ELSE LET p == parse_i32(e.s)
                  IN  IF p.ok THEN Ok(Some(p.val)) ELSE Err(p.err)

serints_deserialize(j) ==
    IF j.kind = "null" THEN Ok(None)
    ELSE LET e == StringOrInt(j)
         IN  IF ~e.ok THEN Err(NoVariantMsg)
             ELSE IF e.variant = "Int" THEN Ok(Some(e.n))
             ELSE LET p == parse_i32(e.s)
                  IN  IF p.ok THEN Ok(Some(p.val)) ELSE Err(p.err)

(***************************************************************************)
(* Timestamps.  A DateTime<Utc> is its calendar date and time of day in    *)
(* UTC with the nanoseconds of the second; two timestamps are the same     *)
(* instant exactly when all their fields are equal.                        *)
(***************************************************************************)
DateTime(y, mo, d, h, mi, s, n) ==
    [year |-> y, month |-> mo, day |-> d, hour |-> h, minute |-> mi, second |-> s, nano |-> n]

IsLeapYear(y) == (y % 4 = 0 /\ y % 100 # 0) \/ y % 400 = 0

DaysInMonth(y, mo) ==
    IF mo = 2 THEN (IF IsLeapYear(y) THEN 29 ELSE 28)
    ELSE IF mo \in {4, 6, 9, 11} THEN 30 ELSE 31

\* n written with exactly w digits.
RECURSIVE FixedDigits(_, _)
FixedDigits(n, w) ==
    IF w = 0 THEN <<>>
    ELSE FixedDigits(n \div 10, w - 1) \o <<DigitChars[(n % 10) + 1]>>

\* A variant of Fraction with a slip: always three digits.
FractionMillis(nano) ==
    IF nano = 0 THEN <<>> ELSE <<".">> \o FixedDigits(nano \div 1000000, 3)

\* A variant of Fraction with a slip: always nine digits.
FractionNanos(nano) == <<".">> \o FixedDigits(nano, 9)

\* The fractional part of the second: none when the nanoseconds are zero,
\* otherwise 3, 6 or 9 digits, the fewest of these that lose nothing.
Fraction(nano) ==
    IF nano = 0 THEN <<>>
    ELSE IF nano % 1000000 = 0 THEN <<".">> \o FixedDigits(nano \div 1000000, 3)
    ELSE IF nano % 1000 = 0 THEN <<".">> \o FixedDigits(nano \div 1000, 6)
    ELSE <<".">> \o FixedDigits(nano, 9)

\* DateTime<Utc>::to_rfc3339
to_rfc3339(t) ==
    FixedDigits(t.year, 4) \o <<"-">> \o FixedDigits(t.month, 2) \o <<"-">>
        \o FixedDigits(t.day, 2) \o <<"T">> \o FixedDigits(t.hour, 2) \o <<":">>
        \o FixedDigits(t.minute, 2) \o <<":">> \o FixedDigits(t.second, 2)
        \o Fraction(t.nano) \o <<"+", "0", "0", ":", "0", "0">>

\* The number written by the n characters of s from position i on, or -1
\* when one of them is missing or is not a digit.
RECURSIVE Num(_, _, _)
Num(s, i, n) ==
    IF n = 0 THEN 0
    ELSE IF i + n - 1 > Len(s) \/ ~IsDigit(s[i + n - 1]) THEN -1
    ELSE LET hi == Num(s, i, n - 1)
         IN  IF hi < 0 THEN -1 ELSE hi * 10 + to_digit(s[i + n - 1])

\* How many digits s holds from position i on.
RECURSIVE DigitRun(_, _)
DigitRun(s, i) ==
    IF i > Len(s) \/ ~IsDigit(s[i]) THEN 0 ELSE 1 + DigitRun(s, i + 1)

RECURSIVE Pow10(_)
Pow10(k) == IF k = 0 THEN 1 ELSE 10 * Pow10(k - 1)

\* The UTC offset written from position i to the end of s, in minutes, if
\* there is one: "Z", or a sign, two digits, ":", two digits.
Offset(s, i) ==
    IF Len(s) = i /\ s[i] \in {"Z", "z"} THEN Some(0)
    ELSE IF Len(s) = i + 5 /\ s[i] \in {"+", "-"} /\ s[i + 3] = ":"
                /\ Num(s, i + 1, 2) \in 0..23 /\ Num(s, i + 4, 2) \in 0..59
    THEN Some((IF s[i] = "-" THEN -1 ELSE 1) * (Num(s, i + 1, 2) * 60 + Num(s, i + 4, 2)))
    ELSE None

PrevDay(t) ==
    IF t.day > 1 THEN [t EXCEPT !.day = t.day - 1]
    ELSE IF t.month > 1
    THEN [t EXCEPT !.month = t.month - 1, !.day = DaysInMonth(t.year, t.month - 1)]
    ELSE [t EXCEPT !.year = t.year - 1, !.month = 12, !.day = 31]

NextDay(t) ==
    IF t.day < DaysInMonth(t.year, t.month) THEN [t EXCEPT !.day = t.day + 1]
    ELSE IF t.month < 12 THEN [t EXCEPT !.month = t.month + 1, !.day = 1]
    ELSE [t EXCEPT !.year = t.year + 1, !.month = 1, !.day = 1]

\* A variant of with_timezone_utc with a slip: the offset is dropped.
with_timezone_utc_local(t, off) == t

\* with_timezone(&Utc): the local time t, written with UTC offset off
\* (in minutes), as a time in UTC.
with_timezone_utc(t, off) ==
    LET m == t.hour * 60 + t.minute - off
    IN  IF m < 0
        THEN [PrevDay(t) EXCEPT !.hour = (m + 1440) \div 60, !.minute = (m + 1440) % 60]
        ELSE IF m >= 1440
        THEN [NextDay(t) EXCEPT !.hour = (m - 1440) \div 60, !.minute = (m - 1440) % 60]
        ELSE [t EXCEPT !.hour = m \div 60, !.minute = m % 60]

InvalidRfc3339Msg == "invalid RFC3339 timestamp"

\* DateTime::parse_from_rfc3339 followed by the conversion to UTC.
parse_from_rfc3339(s) ==
    LET y == Num(s, 1, 4)
        mo == Num(s, 6, 2)
        d == Num(s, 9, 2)
        h == Num(s, 12, 2)
        mi == Num(s, 15, 2)
        sec == Num(s, 18, 2)
        hasFrac == Len(s) >= 20 /\ s[20] = "."
        k == IF hasFrac THEN DigitRun(s, 21) ELSE 0
        nano == IF k \in 1..9 THEN Num(s, 21, k) * Pow10(9 - k) ELSE 0
        zoneAt == IF hasFrac THEN 21 + k ELSE 20
        off == Offset(s, zoneAt)
    IN  IF /\ Len(s) >= 20
           /\ s[5] = "-" /\ s[8] = "-" /\ s[11] = "T" /\ s[14] = ":" /\ s[17] = ":"
           /\ y >= 0 /\ mo \in 1..12 /\ d >= 1 /\ d <= DaysInMonth(y, mo)
           /\ h \in 0..23 /\ mi \in 0..59 /\ sec \in 0..59
           /\ (hasFrac => k \in 1..9)
           /\ off # None
        THEN Ok(with_timezone_utc(DateTime(y, mo, d, h, mi, sec, nano), off[1]))
        ELSE Err(InvalidRfc3339Msg)

(***************************************************************************)
(* serdates::serialize and serdates::deserialize                           *)
(***************************************************************************)
UnsupportedTimestampMsg == "unsupported type for timestamp field"

serdates_serialize(v) ==
    IF v # None THEN JsonString(to_rfc3339(v[1])) ELSE JsonNull

\* A variant of deserialize with a slip: every string of zeros is the sentinel.
serdates_deserialize_numeric(j) ==
    IF j.kind = "null" THEN Ok(None)
    ELSE IF j.kind # "string" THEN Err(UnsupportedTimestampMsg)
    ELSE IF Len(j.text) >= 1 /\ \A i \in 1..Len(j.text) : j.text[i] = "0" THEN Ok(None)
    ELSE LET p == parse_from_rfc3339(j.text)
         IN  IF p.ok THEN Ok(Some(p.val)) ELSE Err(p.err)

\* A variant of deserialize with a slip: a number is taken as seconds since
\* the epoch.
serdates_deserialize_epoch(j) ==
    IF j.kind = "null" THEN Ok(None)
    ELSE IF j.kind = "number" THEN Ok(Some(DateTime(1970, 1, 1, 0, 0, 0, 0)))
    ELSE IF j.kind # "string" THEN Err(UnsupportedTimestampMsg)
    ELSE IF j.text = <<"0">> THEN Ok(None)
    ELSE LET p == parse_from_rfc3339(j.text)
         IN  IF p.ok THEN Ok(Some(p.val)) ELSE Err(p.err)

serdates_deserialize(j) ==
    IF j.kind = "null" THEN Ok(None)
    ELSE IF j.kind # "string" THEN Err(UnsupportedTimestampMsg)
    ELSE IF j.text = <<"0">> THEN Ok(None)
    ELSE LET p == parse_from_rfc3339(j.text)
         IN  IF p.ok THEN Ok(Some(p.val)) ELSE Err(p.err)

(***************************************************************************)
(* Inputs of the integer codec                                             *)
(***************************************************************************)
\* The integers that are encoded: the small ones and both ends of the range.
IntVals ==
    (-MaxAbs..MaxAbs)
        \cup {I32_MAX - k : k \in 0..MaxEdge}
        \cup {I32_MIN + k : k \in 0..MaxEdge}
        \cup {100, -100, 1000, -1000, 999999999, -999999999, 1000000000, -1000000000}

\* The decimal literal of n, as the peer writes it in a JSON document.
NumberLiteral(n) ==
    IF n >= 0 THEN MagnitudeDigits(n) ELSE <<"-">> \o MagnitudeDigits(n)

Alphabet == {"0", "1", "5", "-", "+", " ", "a", "."}

RECURSIVE StringsOfLen(_)
StringsOfLen(n) ==
    IF n = 0 THEN {<<>>}
    ELSE {Append(s, c) : s \in StringsOfLen(n - 1), c \in Alphabet}

ShortStrings == UNION {StringsOfLen(n) : n \in 0..MaxStrLen}

RECURSIVE Zeros(_)
Zeros(n) == IF n = 0 THEN <<>> ELSE <<"0">> \o Zeros(n - 1)

\* The first nine digits of i32::MAX: with one more digit they denote the
\* integers 2147483640 .. 2147483649, which straddle the end of the range,
\* and with two more digits integers far outside it.
EdgeStem == <<"2", "1", "4", "7", "4", "8", "3", "6", "4">>

EdgeDigits ==
    {EdgeStem \o <<DigitChars[d]>> : d \in 1..10}
        \cup {EdgeStem \o <<DigitChars[d], "0">> : d \in {1, 8, 9}}
        \cup {<<"9", "9", "9", "9", "9", "9", "9", "9", "9", "9">>}

EdgeStrings ==
    {sign \o Zeros(z) \o ds :
        sign \in {<<>>, <<"-">>, <<"+">>}, z \in 0..MaxLeadingZeros, ds \in EdgeDigits}

NamedStrings ==
    { <<"n", "o", "t", "_", "a", "_", "n", "u", "m", "b", "e", "r">>,
      <<"4", "2">>, <<"2", "5">>, <<"0", "0", "7">>, <<"+", "5">>, <<" ", "5">>,
      <<"5", " ">>, <<"0", "0">>, <<"0", ".", "0">>, <<"-", "0">>, <<"+", "0">>,
      <<"1", "e", "2">>, <<"0", "x", "1", "0">> }

IntStrings ==
    ShortStrings \cup EdgeStrings \cup NamedStrings
        \cup {NumberLiteral(n) : n \in IntVals}

\* Number literals of the JSON grammar: integers in and out of the i32
\* range, "-0", and literals with a fraction or an exponent.
IntegerLiterals ==
    {NumberLiteral(n) : n \in IntVals}
        \cup {sign \o ds : sign \in {<<>>, <<"-">>}, ds \in EdgeDigits}

FloatLiterals ==
    { <<"-", "0">>, <<"1", ".", "5">>, <<"4", "2", ".", "0">>, <<"1", "e", "2">>,
      <<"-", "1", ".", "0">>, <<"0", ".", "0">>, <<"1", "E", "9">> }

IntJsonInputs ==
    {JsonNull, JsonBool(TRUE), JsonBool(FALSE), JsonArray, JsonObject}
        \cup {JsonString(s) : s \in IntStrings}
        \cup {JsonNumber(t) : t \in IntegerLiterals \cup FloatLiterals}

IntOptions == {None} \cup {Some(n) : n \in IntVals}

(***************************************************************************)
(* Inputs of the timestamp codec                                           *)
(***************************************************************************)
Dates ==
    { <<1970, 1, 1>>, <<2023, 12, 1>>, <<2023, 12, 31>>, <<2024, 1, 1>>,
      <<2024, 1, 15>>, <<2024, 2, 29>>, <<2024, 3, 1>> }

Times == { <<0, 0, 0>>, <<9, 45, 30>>, <<15, 30, 45>>, <<23, 59, 59>> }

Nanos ==
    { 0, 1, 500, 123, 123000, 999, 1000, 123456789, 100000000, 120000000,
      123000000, 123456000, 999999999, 1000000, 999000000 }

Timestamps ==
    {DateTime(d[1], d[2], d[3], c[1], c[2], c[3], n) : d \in Dates, c \in Times, n \in Nanos}

DateOptions == {None} \cup {Some(t) : t \in Timestamps}

\* The pieces of the RFC3339 strings the peer sends.
DateTexts ==
    { <<"2", "0", "2", "3", "-", "1", "2", "-", "0", "1">>,
      <<"2", "0", "2", "4", "-", "0", "1", "-", "1", "5">>,
      <<"2", "0", "2", "4", "-", "0", "1", "-", "0", "1">>,
      <<"2", "0", "2", "4", "-", "0", "2", "-", "2", "9">>,
      <<"2", "0", "2", "3", "-", "0", "2", "-", "2", "9">>,
      <<"2", "0", "2", "4", "-", "1", "3", "-", "4", "5">> }

TimeTexts ==
    { <<"T", "1", "5", ":", "3", "0", ":", "4", "5">>,
      <<"T", "0", "9", ":", "4", "5", ":", "3", "0">>,
      <<"T", "0", "0", ":", "0", "0", ":", "0", "0">>,
      <<"T", "2", "3", ":", "5", "9", ":", "5", "9">>,
      <<"T", "2", "4", ":", "0", "0", ":", "0", "0">>,
      <<" ", "0", "9", ":", "4", "5", ":", "3", "0">> }

NineDigits == <<"1", "2", "3", "4", "5", "6", "7", "8", "9">>

FractionTexts ==
    {<<>>, <<".">>, <<".", "0", "0", "0", "0", "0", "0", "0", "0", "1">>, <<".", "5", "0", "0">>}
        \cup {<<".">> \o SubSeq(NineDigits, 1, k) : k \in 1..9}

ZoneTexts ==
    { <<"Z">>, <<>>, <<"+", "0", "0", ":", "0", "0">>, <<"+", "0", "5", ":", "3", "0">>,
      <<"-", "0", "8", ":", "0", "0">>, <<"+", "0", "1", ":", "0", "0">> }

Rfc3339Strings ==
    {d \o c \o f \o z : d \in DateTexts, c \in TimeTexts, f \in FractionTexts, z \in ZoneTexts}

DateStrings ==
    Rfc3339Strings \cup DateTexts
        \cup { <<"0">>, <<"0", "0">>, <<"0", ".", "0">>, <<>>, <<" ", "0">>, <<"0", " ">>,
               <<"+", "0">>, <<"-", "0">>, <<"n", "o", "w">> }

DateJsonInputs ==
    {JsonNull, JsonBool(TRUE), JsonBool(FALSE), JsonArray, JsonObject}
        \cup {JsonString(s) : s \in DateStrings}
        \cup {JsonNumber(t) : t \in {<<"1", "2", "3">>, <<"0">>, <<"1", ".", "5">>}}

(***************************************************************************)
(* A struct whose fields are decoded by the codecs: count by serints, from *)
(* and to by serdates.  The derived Deserialize decodes the fields one     *)
(* after the other and returns the first error; a field that the object    *)
(* does not hold is an error too.                                          *)
(***************************************************************************)
Absent == [kind |-> "absent", text |-> <<>>]

FieldWith(decoded, j, name) ==
    IF j = Absent THEN Err("missing field " \o name) ELSE decoded

\* A variant with a slip: from and to take each other's value.
deserialize_struct_swapped(o) ==
    LET c == FieldWith(serints_deserialize(o.count), o.count, "count")
        f == FieldWith(serdates_deserialize(o.from), o.from, "from")
        u == FieldWith(serdates_deserialize(o.to), o.to, "to")
    IN  IF ~c.ok THEN Err(c.err)
        ELSE IF ~f.ok THEN Err(f.err)
        ELSE IF ~u.ok THEN Err(u.err)
        ELSE Ok([count |-> c.val, from |-> u.val, to |-> f.val])

deserialize_struct(o) ==
    LET c == FieldWith(serints_deserialize(o.count), o.count, "count")
        f == FieldWith(serdates_deserialize(o.from), o.from, "from")
        u == FieldWith(serdates_deserialize(o.to), o.to, "to")
    IN  IF ~c.ok THEN Err(c.err)
        ELSE IF ~f.ok THEN Err(f.err)
        ELSE IF ~u.ok THEN Err(u.err)
        ELSE Ok([count |-> c.val, from |-> f.val, to |-> u.val])

CountFieldInputs ==
    { Absent, JsonNull, JsonBool(TRUE), JsonNumber(<<"2", "5">>), JsonString(<<"2", "5">>),
      JsonString(<<"0">>), JsonString(<<>>), JsonString(<<" ", "5">>),
      JsonString(<<"2", "1", "4", "7", "4", "8", "3", "6", "4", "8">>) }

TimeFieldInputs ==
    { Absent, JsonNull, JsonNumber(<<"1", "2", "3">>), JsonString(<<"0">>),
      JsonString(<<"0", "0">>),
      JsonString(<<"2", "0", "2", "4", "-", "0", "1", "-", "1", "5", "T", "0", "9", ":",
                   "4", "5", ":", "3", "0", "Z">>),
      JsonString(<<"2", "0", "2", "4", "-", "1", "3", "-", "4", "5">>) }

StructInputs == [count : CountFieldInputs, from : TimeFieldInputs, to : TimeFieldInputs]

(***************************************************************************)
(* The query of the candles request: count and dailyAlignment are plain    *)
(* Option<i32> fields, from and to are decoded and encoded by serdates.    *)
(* A field that is None is left out of what is written.                    *)
(***************************************************************************)
\* Serialize for Option<i32>, as serde implements it: the number, or null.
Option_i32_serialize(v) ==
    IF v # None THEN JsonNumber(to_string(v[1])) ELSE JsonNull

\* A variant with a slip: a plain field read the way serints reads it.
Option_i32_deserialize_lenient(j) == serints_deserialize(j)

\* Deserialize for Option<i32>, as serde implements it: null, or an i32.
Option_i32_deserialize(j) ==
    IF j.kind = "null" THEN Ok(None)
    ELSE LET n == VariantInt(j)
         IN  IF n.ok THEN Ok(Some(n.val)) ELSE Err(n.err)

\* skip_serializing_if = "Option::is_none"
SkipNone(v, written) == IF v = None THEN Absent ELSE written

\* A plain Option field that the object does not hold is None.
FieldDefault(decoded, j) == IF j = Absent THEN Ok(None) ELSE decoded

serialize_query(q) ==
    [ count |-> SkipNone(q.count, Option_i32_serialize(q.count)),
      from |-> SkipNone(q.from, serdates_serialize(q.from)),
      to |-> SkipNone(q.to, serdates_serialize(q.to)),
      dailyAlignment |-> SkipNone(q.dailyAlignment, Option_i32_serialize(q.dailyAlignment)) ]

deserialize_query(o) ==
    LET c == FieldDefault(Option_i32_deserialize(o.count), o.count)
        f == FieldWith(serdates_deserialize(o.from), o.from, "from")
        u == FieldWith(serdates_deserialize(o.to), o.to, "to")
        a == FieldDefault(Option_i32_deserialize(o.dailyAlignment), o.dailyAlignment)
    IN  IF ~c.ok THEN Err(c.err)
        ELSE IF ~f.ok THEN Err(f.err)
        ELSE IF ~u.ok THEN Err(u.err)
        ELSE IF ~a.ok THEN Err(a.err)
        ELSE Ok([count |-> c.val, from |-> f.val, to |-> u.val, dailyAlignment |-> a.val])

SampleTime == DateTime(2024, 1, 15, 9, 45, 30, 0)

SampleTimeText ==
    <<"2", "0", "2", "4", "-", "0", "1", "-", "1", "5", "T", "0", "9", ":", "4", "5", ":",
      "3", "0", "Z">>

QueryValues ==
    [ count : {None, Some(25), Some(-1)},
      from : {None, Some(SampleTime)},
      to : {None, Some(DateTime(2024, 2, 29, 23, 59, 59, 500000000))},
      dailyAlignment : {None, Some(17)} ]

QueryInputs ==
    [ count : {Absent, JsonNull, JsonNumber(<<"2", "5">>), JsonString(<<"2", "5">>),
               JsonNumber(<<"1", ".", "5">>)},
      from : {Absent, JsonNull, JsonString(SampleTimeText), JsonString(<<"0">>),
              JsonNumber(<<"1", "2", "3">>)},
      to : {JsonNull, JsonString(<<"0">>)},
      dailyAlignment : {Absent, JsonNumber(<<"1", "7">>), JsonString(<<"1", "7">>)} ]

(***************************************************************************)
(* The client: the host and the API token.                                 *)
(***************************************************************************)
TheClient == [host |-> "api-fxpractice.oanda.com", authentication |-> "test-token"]

(***************************************************************************)
(* Requests.  A request holds its URI template, cut at the placeholders,   *)
(* and its header, path and query parameters; new() leaves every           *)
(* parameter unset and each with_ method sets one of them.                 *)
(***************************************************************************)
DefaultUri(kind) ==
    IF kind = "candles" THEN <<"/v3/instruments/", "{instrument}", "/candles">>
    ELSE IF kind = "orderbook" THEN <<"/v3/instruments/", "{instrument}", "/orderBook">>
    ELSE IF kind = "positionbook" THEN <<"/v3/instruments/", "{instrument}", "/positionBook">>
    ELSE <<"/v3/accounts/", "{accountID}", "/positions/", "{instrument}", "/close">>

new(kind) ==
    [ kind |-> kind,
      uri |-> DefaultUri(kind),
      authorization |-> None,
      accept_datetime_format |-> None,
      account_id |-> None,
      instrument |-> None,
      count |-> None ]

with_instrument(req, x) == [req EXCEPT !.instrument = Some(x)]

with_account_id(req, x) == [req EXCEPT !.account_id = Some(x)]

with_authorization(req, x) == [req EXCEPT !.authorization = Some(x)]

with_accept_datetime_format(req, x) == [req EXCEPT !.accept_datetime_format = Some(x)]

\* A variant of with_count with a slip: the instrument is forgotten.
with_count_resets(req, x) == [req EXCEPT !.count = Some(x), !.instrument = None]

with_count(req, x) == [req EXCEPT !.count = Some(x)]

with_uri(req, x) == [req EXCEPT !.uri = x]

InstrumentKinds == {"candles", "orderbook", "positionbook"}

(***************************************************************************)
(* FxError                                                                 *)
(***************************************************************************)
Validation(e) ==
    [variant |-> "Validation", status_code |-> 0, error_code |-> "", error_message |-> e]

HttpError(msg) ==
    [variant |-> "HttpError", status_code |-> 0, error_code |-> "", error_message |-> msg]

ApiError(status, code, message) ==
    [variant |-> "ApiError", status_code |-> status, error_code |-> code,
     error_message |-> message]

DeserializationError(path, message) ==
    [variant |-> "DeserializationError", status_code |-> 0, error_code |-> path,
     error_message |-> message]

\* From<reqwest::Error> for FxError
FromReqwestError(msg) == HttpError(msg)

SendErrorMsg == "error sending request"
BodyErrorMsg == "error decoding response body"

(***************************************************************************)
(* remote(), piece by piece.                                               *)
(***************************************************************************)
\* The path parameters of a request whose required ones are all set.
PathOf(req) ==
    [ account_id |-> IF req.account_id = None THEN "" ELSE req.account_id[1],
      instrument |-> IF req.instrument = None THEN "" ELSE req.instrument[1] ]

\* The required path parameters, unwrapped in the order remote() checks
\* them.  Variants with a slip: the instrument checked first, and a
\* missing parameter taken as the empty string.
validate_instrument_first(req) ==
    IF req.instrument = None THEN Err(Validation("MissingInstrument"))
    ELSE IF req.kind = "close_position" /\ req.account_id = None
    THEN Err(Validation("MissingAccountId"))
    ELSE Ok(PathOf(req))

validate_unwrap_or_default(req) == Ok(PathOf(req))

validate(req) ==
    IF req.kind = "close_position" /\ req.account_id = None
    THEN Err(Validation("MissingAccountId"))
    ELSE IF req.instrument = None THEN Err(Validation("MissingInstrument"))
    ELSE Ok(PathOf(req))

\* A variant of replace with a slip: only the first occurrence is replaced.
replace_first(uri, placeholder, x) ==
    [i \in 1..Len(uri) |->
        IF uri[i] = placeholder /\ \A j \in 1..(i - 1) : uri[j] # placeholder
        THEN x ELSE uri[i]]

\* String::replace on the URI template.
replace(uri, placeholder, x) ==
    [i \in 1..Len(uri) |-> IF uri[i] = placeholder THEN x ELSE uri[i]]

Uri(req, path) ==
    LET u == replace(req.uri, "{instrument}", path.instrument)
    IN  IF req.kind = "close_position"
        THEN replace(u, "{accountID}", path.account_id)
        ELSE u

\* A variant with a slip: the request's own authorization, when it has one,
\* is the bearer token.
HttpRequest_own_token(c, req, path) ==
    [ method |-> IF req.kind = "close_position" THEN "PUT" ELSE "GET",
      url |-> <<"https://", c.host>> \o Uri(req, path),
      bearer |-> IF req.authorization # None THEN req.authorization[1]
                 ELSE c.authentication,
      query |-> [count |-> req.count] ]

\* Client::candles and the other methods the macro generates: the request
\* and the client are handed to remote() as they are.  A variant with a
\* slip fills in an instrument that is missing.
client_method_default_instrument(c, x) ==
    [ client |-> c,
      req |-> IF x.instrument = None THEN [x EXCEPT !.instrument = Some("EUR_USD")] ELSE x ]

client_method(c, x) == [client |-> c, req |-> x]

\* The HTTP request remote() sends once the path parameters are unwrapped.
HttpRequest(c, req, path) ==
    [ method |-> IF req.kind = "close_position" THEN "PUT" ELSE "GET",
      url |-> <<"https://", c.host>> \o Uri(req, path),
      bearer |-> c.authentication,
      query |-> [count |-> req.count] ]

\* RequestBuilder::send puts one HTTP request on the wire.  A variant with
\* a slip puts it there twice.
send_twice(sent, request) == Append(Append(sent, request), request)

send(sent, request) == Append(sent, request)

\* remote() takes the client by shared reference: the client after a call
\* is the client before it.  A variant with a slip keeps the request's
\* own authorization in the client.
shared_ref_writes(c, req) ==
    IF req.authorization # None THEN [c EXCEPT !.authentication = req.authorization[1]]
    ELSE c

shared_ref(c, req) == c

is_success(status) == status >= 200 /\ status <= 299

\* Value::as_str on a field of the error body, or the default.
as_str_or(field, default) ==
    IF field.kind = "string" THEN field.text ELSE default

\* A variant with a slip: one missing field puts both defaults in place.
error_status_coupled(resp) ==
    IF ~resp.readable THEN Err(FromReqwestError(BodyErrorMsg))
    ELSE IF resp.body.valid
    THEN IF resp.body.errorCode.kind = "string" /\ resp.body.errorMessage.kind = "string"
         THEN Err(ApiError(resp.status, resp.body.errorCode.text, resp.body.errorMessage.text))
         ELSE Err(ApiError(resp.status, "UNKNOWN_ERROR_CODE", "Unknown error"))
    ELSE Err(ApiError(resp.status, "UNPARSEABLE_RESPONSE", "Could not parse error response"))

\* The outcome of remote() for a response whose status is not a success.
error_status(resp) ==
    IF ~resp.readable THEN Err(FromReqwestError(BodyErrorMsg))
    ELSE IF resp.body.valid
    THEN Err(ApiError(resp.status,
                      as_str_or(resp.body.errorCode, "UNKNOWN_ERROR_CODE"),
                      as_str_or(resp.body.errorMessage, "Unknown error")))
    ELSE Err(ApiError(resp.status, "UNPARSEABLE_RESPONSE", "Could not parse error response"))

\* Response::json::<...Response>() on the body: the body is read, parsed,
\* and its timestamp field decoded by serdates.
response_json(resp) ==
    IF ~resp.readable \/ ~resp.body.valid THEN Err(BodyErrorMsg)
    ELSE LET d == serdates_deserialize(resp.body.time)
         IN  IF d.ok THEN Ok([time |-> d.val]) ELSE Err(BodyErrorMsg)

\* A variant with a slip: a body that does not decode is reported as a
\* deserialization error.
success_status_deserialization(resp) ==
    LET b == response_json(resp)
    IN  IF b.ok THEN b ELSE Err(DeserializationError("unknown", b.err))

\* The outcome of remote() for a response whose status is a success.
success_status(resp) ==
    LET b == response_json(resp)
    IN  IF b.ok THEN b ELSE Err(FromReqwestError(b.err))

\* remote() run from its call to its return: tr tells whether the
\* transport delivered a response, and which.
RemoteOutcome(c, req, tr) ==
    IF ~validate(req).ok THEN validate(req)
    ELSE IF ~tr.delivered THEN Err(FromReqwestError(SendErrorMsg))
    ELSE IF ~is_success(tr.resp.status) THEN error_status(tr.resp)
    ELSE success_status(tr.resp)

(***************************************************************************)
(* Inputs of remote()                                                      *)
(***************************************************************************)
Instruments == {"EUR_USD", "GBP_USD"}

\* Templates installed with with_uri: the placeholder twice, and not at all.
CustomUris ==
    { <<"/v4/", "{instrument}", "/mirror/", "{instrument}">>, <<"/v4/fixed">> }

RemoteRequests ==
    {new(k) : k \in InstrumentKinds \cup {"close_position"}}
        \cup {with_instrument(new(k), i) : k \in InstrumentKinds, i \in Instruments}
        \cup {with_count(with_authorization(new("candles"), "other-token"), 5)}
        \cup {with_authorization(with_instrument(new("candles"), "EUR_USD"), "other-token")}
        \cup {with_account_id(new("close_position"), "101-001")}
        \cup {with_instrument(new("close_position"), "EUR_USD")}
        \cup {with_instrument(with_account_id(new("close_position"), "101-001"), "EUR_USD")}
        \cup {with_accept_datetime_format(
                  with_authorization(with_instrument(new("orderbook"), "EUR_USD"), "other-token"),
                  "UNIX")}
        \cup {with_uri(r, u) :
                r \in {new("candles"), with_instrument(new("candles"), "GBP_USD")},
                u \in CustomUris}

Word(s) == [kind |-> "string", text |-> s]

\* The body of a response: whether it is JSON at all, the two fields of an
\* error body and the timestamp field of a success body.
Bodies ==
    [ valid : {TRUE},
      errorCode : {Absent, Word("NOT_FOUND"), JsonNumber(<<"4", "0", "4">>)},
      errorMessage : {Absent, Word("No such instrument")},
      time : { JsonString(<<"0">>), JsonString(<<"0", "0">>),
               JsonString(<<"2", "0", "2", "4", "-", "0", "1", "-", "1", "5", "T", "0", "9",
                            ":", "4", "5", ":", "3", "0", "Z">>) } ]
        \cup [valid : {FALSE}, errorCode : {Absent}, errorMessage : {Absent}, time : {Absent}]

Statuses == {200, 201, 400, 404, 500}

Responses == [status : Statuses, readable : BOOLEAN, body : Bodies]

\* What the shared run draws from: fewer requests and responses, several calls.
NumCalls == 2

SharedRequests ==
    { new("candles"),
      with_instrument(new("candles"), "EUR_USD"),
      with_authorization(with_instrument(new("orderbook"), "GBP_USD"), "other-token") }

SharedResponses ==
    {r \in Responses :
        /\ r.readable
        /\ r.body.valid
        /\ r.body.errorMessage = Absent
        /\ \/ r.status = 200 /\ r.body.errorCode = Absent
                             /\ r.body.time \in {JsonString(<<"0">>), JsonString(<<"0", "0">>)}
           \/ r.status = 404 /\ r.body.errorCode = Word("NOT_FOUND")
                             /\ r.body.time = JsonString(<<"0">>)}

SharedJsonInputs == {JsonString(<<"2", "5">>), JsonString(<<>>)}

Transport == IF codec = "shared" THEN SharedResponses ELSE Responses

NoResponse == [status |-> 0, readable |-> FALSE, body |-> Absent]

NoOutcome == Err("")

\* A call of remote(): arg is the request the caller built, applied the
\* setters it was built with, via the way remote() is reached.
NewCall(req) ==
    [ arg |-> req, applied |-> <<>>, via |-> "remote",
      req |-> req, pc |-> "start", sent |-> <<>>, delivered |-> FALSE,
      resp |-> NoResponse, out |-> NoOutcome ]

\* The setters a caller applies to a request, each named after the field it
\* sets, and the arguments it is given.
MaxSetters == 3

Setters == {"uri", "instrument", "authorization", "accept_datetime_format", "count"}

SetterArgs(name) ==
    CASE name = "uri" -> CustomUris
      [] name = "instrument" -> Instruments
      [] name = "authorization" -> {"other-token", "third-token"}
      [] name = "accept_datetime_format" -> {"UNIX", "RFC3339"}
      [] name = "count" -> {5, 25}

Apply(name, req, x) ==
    CASE name = "uri" -> with_uri(req, x)
      [] name = "instrument" -> with_instrument(req, x)
      [] name = "authorization" -> with_authorization(req, x)
      [] name = "accept_datetime_format" -> with_accept_datetime_format(req, x)
      [] name = "count" -> with_count(req, x)

\* A request under construction, as new() returns it.
BuilderCall(kind) == [NewCall(new(kind)) EXCEPT !.pc = "building"]

\* A call of a method of Client with the request req.
MethodCall(req) == [NewCall(req) EXCEPT !.via = "method", !.pc = "method"]

(***************************************************************************)
(* The state machine: one (de)serialization pass.  A run starts either     *)
(* with a value to encode (origin "value") or with a JSON value received   *)
(* from the peer (origin "json"); a decoded value may be encoded again.    *)
(***************************************************************************)
NoResult == Err("")

InitInts ==
    /\ codec = "ints"
    /\ \/ /\ origin = "value"
          /\ pc = "encode"
          /\ value \in IntOptions
          /\ json = JsonNull
       \/ /\ origin = "json"
          /\ pc = "decode"
          /\ value = None
          /\ json \in IntJsonInputs
    /\ result = NoResult
    /\ first = NoResult
    /\ rounds = 0
    /\ client = TheClient
    /\ calls = <<>>

IntSerialize ==
    /\ codec = "ints"
    /\ pc = "encode"
    /\ json' = serints_serialize(value)
    /\ pc' = "decode"
    /\ UNCHANGED <<codec, origin, value, result, first, rounds>>
    /\ UNCHANGED remoteVars

IntDeserialize ==
    /\ codec = "ints"
    /\ pc = "decode"
    /\ result' = serints_deserialize(json)
    /\ first' = IF first = NoResult THEN result' ELSE first
    /\ pc' = "done"
    /\ UNCHANGED <<codec, origin, value, json, rounds>>
    /\ UNCHANGED remoteVars

\* The caller hands a decoded value back to the encoder.
Reencode ==
    /\ codec \in {"ints", "dates"}
    /\ pc = "done"
    /\ result.ok
    /\ rounds < MaxRounds
    /\ value' = result.val
    /\ rounds' = rounds + 1
    /\ pc' = "encode"
    /\ UNCHANGED <<codec, origin, json, result, first>>
    /\ UNCHANGED remoteVars

InitDates ==
    /\ codec = "dates"
    /\ \/ /\ origin = "value"
          /\ pc = "encode"
          /\ value \in DateOptions
          /\ json = JsonNull
       \/ /\ origin = "json"
          /\ pc = "decode"
          /\ value = None
          /\ json \in DateJsonInputs
    /\ result = NoResult
    /\ first = NoResult
    /\ rounds = 0
    /\ client = TheClient
    /\ calls = <<>>

DateSerialize ==
    /\ codec = "dates"
    /\ pc = "encode"
    /\ json' = serdates_serialize(value)
    /\ pc' = "decode"
    /\ UNCHANGED <<codec, origin, value, result, first, rounds>>
    /\ UNCHANGED remoteVars

DateDeserialize ==
    /\ codec = "dates"
    /\ pc = "decode"
    /\ result' = serdates_deserialize(json)
    /\ first' = IF first = NoResult THEN result' ELSE first
    /\ pc' = "done"
    /\ UNCHANGED <<codec, origin, value, json, rounds>>
    /\ UNCHANGED remoteVars

InitStruct ==
    /\ codec = "struct"
    /\ origin = "json"
    /\ pc = "decode"
    /\ value = None
    /\ json \in StructInputs
    /\ result = NoResult
    /\ first = NoResult
    /\ rounds = 0
    /\ client = TheClient
    /\ calls = <<>>

StructDeserialize ==
    /\ codec = "struct"
    /\ pc = "decode"
    /\ result' = deserialize_struct(json)
    /\ first' = result'
    /\ pc' = "done"
    /\ UNCHANGED <<codec, origin, value, json, rounds>>
    /\ UNCHANGED remoteVars

InitQuery ==
    /\ codec = "query"
    /\ \/ /\ origin = "value"
          /\ pc = "encode"
          /\ \E q \in QueryValues : value = Some(q)
          /\ json = JsonNull
       \/ /\ origin = "json"
          /\ pc = "decode"
          /\ value = None
          /\ json \in QueryInputs
    /\ result = NoResult
    /\ first = NoResult
    /\ rounds = 0
    /\ client = TheClient
    /\ calls = <<>>

QuerySerialize ==
    /\ codec = "query"
    /\ pc = "encode"
    /\ json' = serialize_query(value[1])
    /\ pc' = "decode"
    /\ UNCHANGED <<codec, origin, value, result, first, rounds>>
    /\ UNCHANGED remoteVars

QueryDeserialize ==
    /\ codec = "query"
    /\ pc = "decode"
    /\ result' = deserialize_query(json)
    /\ first' = result'
    /\ pc' = "done"
    /\ UNCHANGED <<codec, origin, value, json, rounds>>
    /\ UNCHANGED remoteVars

(***************************************************************************)
(* A call of remote(): a step up to each point where the call waits for    *)
(* the network.  The calls share the client.                               *)
(***************************************************************************)
InitRemote ==
    /\ codec = "remote"
    /\ origin = "json"
    /\ pc = "idle"
    /\ value = None
    /\ json = JsonNull
    /\ result = NoResult
    /\ first = NoResult
    /\ rounds = 0
    /\ client = TheClient
    /\ \E req \in RemoteRequests : calls \in {<<NewCall(req)>>, <<MethodCall(req)>>}

\* A request is built: new(), then one setter after the other.
InitBuilder ==
    /\ codec = "builder"
    /\ origin = "value"
    /\ pc = "idle"
    /\ value = None
    /\ json = JsonNull
    /\ result = NoResult
    /\ first = NoResult
    /\ rounds = 0
    /\ client = TheClient
    /\ calls = <<BuilderCall("candles")>>

Build(p) ==
    /\ calls[p].pc = "building"
    /\ Len(calls[p].applied) < MaxSetters
    /\ \E name \in Setters :
          \E x \in SetterArgs(name) :
             calls' = [calls EXCEPT ![p].req = Apply(name, @, x),
                                    ![p].applied = Append(@, [setter |-> name, arg |-> x])]
    /\ UNCHANGED <<client, codecVars>>

\* A method of Client is called: it calls remote() on its argument.
ClientMethod(p) ==
    /\ calls[p].pc = "method"
    /\ calls' = [calls EXCEPT ![p].pc = "start",
                              ![p].req = client_method(client, calls[p].arg).req]
    /\ client' = client_method(client, calls[p].arg).client
    /\ UNCHANGED codecVars

\* remote() is called with a request that lacks a required parameter.
RemoteInvalid(p) ==
    /\ calls[p].pc = "start"
    /\ ~validate(calls[p].req).ok
    /\ calls' = [calls EXCEPT ![p].pc = "done", ![p].out = validate(calls[p].req)]
    /\ client' = shared_ref(client, calls[p].req)
    /\ UNCHANGED codecVars

\* remote() is called with a valid request: the HTTP request is sent.
RemoteSend(p) ==
    /\ calls[p].pc = "start"
    /\ validate(calls[p].req).ok
    /\ calls' = [calls EXCEPT ![p].pc = "sending",
                              ![p].sent = send(@, HttpRequest(client, calls[p].req,
                                                          validate(calls[p].req).val))]
    /\ client' = shared_ref(client, calls[p].req)
    /\ UNCHANGED codecVars

\* send() fails: no response is delivered.
SendFails(p) ==
    /\ calls[p].pc = "sending"
    /\ calls' = [calls EXCEPT ![p].pc = "done",
                              ![p].out = Err(FromReqwestError(SendErrorMsg))]
    /\ UNCHANGED <<client, codecVars>>

\* send() returns a response.
SendResponds(p) ==
    /\ calls[p].pc = "sending"
    /\ \E r \in Transport :
          calls' = [calls EXCEPT ![p].pc = "responded", ![p].delivered = TRUE, ![p].resp = r]
    /\ UNCHANGED <<client, codecVars>>

\* The status is not a success: the error body is read and reported.
RemoteErrorStatus(p) ==
    /\ calls[p].pc = "responded"
    /\ ~is_success(calls[p].resp.status)
    /\ calls' = [calls EXCEPT ![p].pc = "done", ![p].out = error_status(calls[p].resp)]
    /\ UNCHANGED <<client, codecVars>>

\* The status is a success: the body is decoded into the response.
RemoteSuccessStatus(p) ==
    /\ calls[p].pc = "responded"
    /\ is_success(calls[p].resp.status)
    /\ calls' = [calls EXCEPT ![p].pc = "done", ![p].out = success_status(calls[p].resp)]
    /\ UNCHANGED <<client, codecVars>>

Init == InitInts \/ InitDates \/ InitStruct \/ InitQuery \/ InitRemote \/ InitBuilder

Next ==
    \/ IntSerialize \/ IntDeserialize \/ DateSerialize \/ DateDeserialize \/ Reencode
    \/ StructDeserialize \/ QuerySerialize \/ QueryDeserialize
    \/ \E p \in DOMAIN calls : Build(p)
    \/ \E p \in DOMAIN calls : ClientMethod(p)
    \/ \E p \in DOMAIN calls : RemoteInvalid(p)
    \/ \E p \in DOMAIN calls : RemoteSend(p)
    \/ \E p \in DOMAIN calls : SendFails(p)
    \/ \E p \in DOMAIN calls : SendResponds(p)
    \/ \E p \in DOMAIN calls : RemoteErrorStatus(p)
    \/ \E p \in DOMAIN calls : RemoteSuccessStatus(p)

Spec == Init /\ [][Next]_vars

(***************************************************************************)
(* Several tasks share one client: NumCalls calls of remote() and one      *)
(* codec call run interleaved.                                             *)
(***************************************************************************)
InitShared ==
    /\ codec = "shared"
    /\ pc = "call"
    /\ \/ origin = "json" /\ json \in SharedJsonInputs /\ value = None
       \/ origin = "value" /\ value = Some(25) /\ json = JsonNull
    /\ result = NoResult
    /\ first = NoResult
    /\ rounds = 0
    /\ client = TheClient
    /\ calls \in [1..NumCalls -> {NewCall(req) : req \in SharedRequests}]

\* The codec call of one task: a decode or an encode of the integer codec.
CodecCall ==
    /\ codec = "shared"
    /\ pc = "call"
    /\ pc' = "done"
    /\ result' = IF origin = "json" THEN serints_deserialize(json)
                 ELSE Ok(serints_serialize(value))
    /\ UNCHANGED <<codec, origin, value, json, first, rounds, remoteVars>>

NextShared ==
    \/ CodecCall
    \/ \E p \in DOMAIN calls : RemoteInvalid(p)
    \/ \E p \in DOMAIN calls : RemoteSend(p)
    \/ \E p \in DOMAIN calls : SendFails(p)
    \/ \E p \in DOMAIN calls : SendResponds(p)
    \/ \E p \in DOMAIN calls : RemoteErrorStatus(p)
    \/ \E p \in DOMAIN calls : RemoteSuccessStatus(p)

SpecShared == InitShared /\ [][NextShared]_vars

(***************************************************************************)
(* Reference notions the properties are stated with.  They read the text   *)
(* of a JSON value directly and use neither the encoder nor the decoder.   *)
(***************************************************************************)
\* json holds what the encoder produced from value.
Encoded == pc \in {"decode", "done"} /\ (origin = "value" \/ rounds > 0)

\* json is the value received from the peer and has been decoded.
Received == pc = "done" /\ origin = "json" /\ rounds = 0

AllDigits(s) == \A i \in 1..Len(s) : IsDigit(s[i])

\* An optional sign followed by one or more decimal digits.
IsIntegerText(s) ==
    /\ Len(s) >= 1
    /\ IF s[1] \in {"+", "-"} THEN Len(s) >= 2 /\ AllDigits(Tail(s)) ELSE AllDigits(s)

RECURSIVE StripZeros(_)
StripZeros(ds) ==
    IF Len(ds) > 1 /\ ds[1] = "0" THEN StripZeros(Tail(ds)) ELSE ds

\* The digits of the magnitude an integer text denotes, without leading zeros.
Magnitude(s) == StripZeros(IF s[1] \in {"+", "-"} THEN Tail(s) ELSE s)

\* a <= b for digit strings without leading zeros, by length and then digit by digit.
RECURSIVE DigitsLeq(_, _)
DigitsLeq(a, b) ==
    IF Len(a) # Len(b) THEN Len(a) < Len(b)
    ELSE IF Len(a) = 0 THEN TRUE
    ELSE IF a[1] # b[1] THEN to_digit(a[1]) < to_digit(b[1])
    ELSE DigitsLeq(Tail(a), Tail(b))

MaxDigits == <<"2", "1", "4", "7", "4", "8", "3", "6", "4", "7">>
MinDigits == <<"2", "1", "4", "7", "4", "8", "3", "6", "4", "8">>

\* The integer text s denotes a value of [-2147483648, 2147483647].
DenotesI32(s) ==
    IF s[1] = "-" THEN DigitsLeq(Magnitude(s), MinDigits)
    ELSE DigitsLeq(Magnitude(s), MaxDigits)

\* The decimal form of the integer that s denotes: no "+", no leading
\* zeros, "-" only in front of a non-zero magnitude.
Canonical(s) ==
    IF s[1] = "-" /\ Magnitude(s) # <<"0">> THEN <<"-">> \o Magnitude(s) ELSE Magnitude(s)

(***************************************************************************)
(* Properties                                                              *)
(***************************************************************************)

\* C1  Integer round trip: decoding what the encoder produced from Some(v)
\* yields Some(v), for every i32 v that is encoded (zero, negative values,
\* i32::MIN and i32::MAX among them).
RoundTripIntegers ==
    (codec = "ints" /\ pc = "done" /\ Encoded /\ value # None) => result = Ok(value)

RoundTripIntegersWitness ==
    /\ codec = "ints" /\ pc = "done" /\ origin = "value"
    /\ value = Some(I32_MIN)
    /\ result = Ok(Some(I32_MIN))

\* C2  Absence symmetry, for both codecs: None is encoded as JSON null, and
\* JSON null is decoded to None without error, so that None survives the
\* round trip.
AbsenceSymmetry ==
    /\ (Encoded /\ value = None) => json = JsonNull
    /\ (pc = "done" /\ json = JsonNull) => result = Ok(None)

AbsenceSymmetryWitness ==
    /\ codec = "ints" /\ pc = "done" /\ origin = "value"
    /\ value = None /\ json = JsonNull /\ result = Ok(None)

\* C3  Dual representation: for every integer n that is encoded, the JSON
\* number n and the JSON string holding the decimal text of n both decode
\* to Some(n).
DualRepresentation ==
    \A n \in IntVals :
        (codec = "ints" /\ Received /\ json.kind \in {"number", "string"}
            /\ json.text = NumberLiteral(n))
        => result = Ok(Some(n))

DualRepresentationWitness ==
    /\ codec = "ints" /\ Received
    /\ json = JsonNumber(NumberLiteral(I32_MIN))
    /\ result = Ok(Some(I32_MIN))

\* C4  Timestamp sentinel: among JSON strings exactly the string "0"
\* decodes to None; "00" and "0.0" decode to an error.
TimestampSentinel ==
    (codec = "dates" /\ Received /\ json.kind = "string")
    => /\ (result = Ok(None)) <=> (json.text = <<"0">>)
       /\ json.text \in {<<"0", "0">>, <<"0", ".", "0">>} => ~result.ok

TimestampSentinelWitness ==
    /\ codec = "dates" /\ Received
    /\ json = JsonString(<<"0", "0">>)
    /\ ~result.ok

\* C5  Timestamp round trip: decoding what the encoder produced from Some(t)
\* yields Some(t), nanoseconds included; a timestamp decoded from a string
\* with nine fractional digits is encoded and decoded back to itself.
RoundTripTimestamps ==
    (codec = "dates" /\ pc = "done" /\ Encoded /\ value # None) => result = Ok(value)

RoundTripTimestampsWitness ==
    /\ codec = "dates" /\ pc = "done" /\ origin = "json" /\ rounds = 1
    /\ first.ok /\ first.val # None /\ first.val[1].nano = 123456789
    /\ result = first

\* C6  Range safety: a JSON string or number whose text denotes an integer
\* outside [-2147483648, 2147483647] decodes to an error; whenever integer
\* text decodes to Some(v), v is the integer the text denotes; the two
\* ends of the range decode to themselves.
RangeSafety ==
    (codec = "ints" /\ Received /\ json.kind \in {"number", "string"}
        /\ IsIntegerText(json.text))
    => /\ ~DenotesI32(json.text) => ~result.ok
       /\ (result.ok /\ result.val # None)
            => NumberLiteral(result.val[1]) = Canonical(json.text)
       /\ json.text = MaxDigits => result = Ok(Some(I32_MAX))
       /\ json.text = <<"-">> \o MinDigits => result = Ok(Some(I32_MIN))

RangeSafetyWitness ==
    /\ codec = "ints" /\ Received
    /\ json = JsonString(MinDigits)
    /\ ~result.ok

\* C7  Malformed integer strings: a JSON string that is not an optional
\* sign followed by decimal digits (the empty string, " 5",
\* "not_a_number") decodes to an error, never to None or Some.
MalformedStringsRejected ==
    (codec = "ints" /\ Received /\ json.kind = "string" /\ ~IsIntegerText(json.text))
    => ~result.ok

MalformedStringsRejectedWitness ==
    /\ codec = "ints" /\ Received
    /\ json = JsonString(<<" ", "5">>)
    /\ ~result.ok

\* C8  Integer absence is never zero: only JSON null decodes to None; the
\* number 0 and the string "0" decode to Some(0); Some(0) is encoded as the
\* string "0", not as null.
AbsenceIsNeverZero ==
    codec = "ints"
    => /\ (pc = "done" /\ result = Ok(None)) => json = JsonNull
       /\ (pc = "done" /\ json \in {JsonNumber(<<"0">>), JsonString(<<"0">>)})
            => result = Ok(Some(0))
       /\ (Encoded /\ value = Some(0)) => json = JsonString(<<"0">>)

AbsenceIsNeverZeroWitness ==
    /\ codec = "ints" /\ Received
    /\ json = JsonString(<<"0">>)
    /\ result = Ok(Some(0))

\* C9  Encode form: a present integer v is encoded as a JSON string, never
\* a number, holding the decimal form of v: digits without leading zeros,
\* after a "-" exactly when v is negative.
EncodeForm ==
    (codec = "ints" /\ Encoded /\ value # None)
    => /\ json.kind = "string"
       /\ IsIntegerText(json.text)
       /\ json.text = Canonical(json.text)
       /\ (json.text[1] = "-") <=> (value[1] < 0)
       /\ json.text = NumberLiteral(value[1])

EncodeFormWitness ==
    /\ codec = "ints" /\ pc = "decode" /\ origin = "value"
    /\ value = Some(-1000)
    /\ json = JsonString(<<"-", "1", "0", "0", "0">>)

\* A JSON value that is neither null, nor a string, nor an integer literal.
IsUnsupportedType(j) ==
    \/ j.kind \in {"bool", "object", "array"}
    \/ j.kind = "number" /\ IsFloatLiteral(j.text)

\* C10 as stated: a bool, an object, an array or a non-integral number
\* decodes to an error whose reason is "unsupported type for integer field".
TypeRejectionReason ==
    (codec = "ints" /\ Received /\ IsUnsupportedType(json))
    => ~result.ok /\ result.err = "unsupported type for integer field"

\* C10 as amended: a bool, an object, an array or a non-integral number
\* decodes to an error, never to None or Some; the error is the one of the
\* untagged enum, no variant of which matched.
TypeRejection ==
    (codec = "ints" /\ Received /\ IsUnsupportedType(json))
    => ~result.ok /\ result.err = NoVariantMsg

TypeRejectionWitness ==
    /\ codec = "ints" /\ Received
    /\ json = JsonBool(TRUE)
    /\ ~result.ok

\* C11 as stated: when a JSON string fails to parse, the error holds the
\* reason "not a valid integer string" (together with the original string).
ParseErrorReason ==
    (codec = "ints" /\ Received /\ json.kind = "string" /\ ~result.ok)
    => result.err = "not a valid integer string"

\* C11 as amended: when a JSON string fails to parse, the error holds the
\* message of the ParseIntError alone, which depends only on the kind of
\* the failure: the empty string, a character that is not a digit, a
\* number above the range, a number below it.
ParseErrorMessage ==
    (codec = "ints" /\ Received /\ json.kind = "string" /\ ~result.ok)
    => /\ result.err \in {EmptyMsg, InvalidDigitMsg, PosOverflowMsg, NegOverflowMsg}
       /\ (result.err = EmptyMsg) <=> (json.text = <<>>)
       /\ IsIntegerText(json.text)
            => result.err = (IF json.text[1] = "-" THEN NegOverflowMsg ELSE PosOverflowMsg)
       /\ result.val = None

ParseErrorMessageWitness ==
    /\ codec = "ints" /\ Received
    /\ json = JsonString(<<"n", "o", "t", "_", "a", "_", "n", "u", "m", "b", "e", "r">>)
    /\ result = Err(InvalidDigitMsg)

\* The field values that do not decode: for count, a missing field, a bool
\* and strings that are no i32; for from and to, a missing field, a number
\* and strings that are no RFC3339 timestamp.
BadCountFields ==
    { Absent, JsonBool(TRUE), JsonString(<<>>), JsonString(<<" ", "5">>),
      JsonString(MinDigits) }

BadTimeFields ==
    { Absent, JsonNumber(<<"1", "2", "3">>), JsonString(<<"0", "0">>),
      JsonString(<<"2", "0", "2", "4", "-", "1", "3", "-", "4", "5">>) }

\* C13  No partial success: when one field of the struct fails to decode,
\* the whole struct fails and no struct is returned; a struct that is
\* returned holds None only in the fields that were null (or, for a
\* timestamp, "0"), never in place of a field that failed.
NoPartialSuccess ==
    (codec = "struct" /\ pc = "done")
    => /\ (json.count \in BadCountFields \/ json.from \in BadTimeFields
             \/ json.to \in BadTimeFields)
            => (~result.ok /\ result.val = None)
       /\ result.ok
            => /\ (result.val.count = None) <=> (json.count = JsonNull)
               /\ (result.val.from = None) <=> (json.from \in {JsonNull, JsonString(<<"0">>)})
               /\ (result.val.to = None) <=> (json.to \in {JsonNull, JsonString(<<"0">>)})

NoPartialSuccessWitness ==
    /\ codec = "struct" /\ pc = "done"
    /\ json.count = JsonString(<<" ", "5">>)
    /\ json.from = JsonNull
    /\ json.to = JsonString(<<"0">>)
    /\ result = Err(InvalidDigitMsg)

(***************************************************************************)
(* remote(): errors and validation                                         *)
(***************************************************************************)
\* A call to completion on an instrument endpoint whose success-status
\* response does not decode.
DecodeFailed(p) ==
    /\ calls[p].pc = "done"
    /\ calls[p].req.kind \in InstrumentKinds
    /\ calls[p].delivered
    /\ is_success(calls[p].resp.status)
    /\ ~response_json(calls[p].resp).ok

\* C12: on the instrument endpoints, a success-status response whose body
\* does not decode makes remote() return FxError::DeserializationError with
\* a path naming the failing field.
DecodeFailureIsPathAnnotated ==
    codec = "remote"
    => \A p \in DOMAIN calls :
          DecodeFailed(p)
          => /\ ~calls[p].out.ok
             /\ calls[p].out.err.variant = "DeserializationError"
             /\ calls[p].out.err.error_code # ""

\* C14: on the three instrument endpoints, remote() on a request without an
\* instrument returns Validation(MissingInstrument) and sends no HTTP
\* request, whatever else was set on the request.
ValidationPrecedesIO ==
    codec = "remote"
    => \A p \in DOMAIN calls :
          (calls[p].req.kind \in InstrumentKinds /\ calls[p].req.instrument = None)
          => /\ calls[p].sent = <<>>
             /\ calls[p].pc \in {"method", "start", "done"}
             /\ calls[p].pc = "done"
                => calls[p].out = Err(Validation("MissingInstrument"))

ValidationPrecedesIOWitness ==
    /\ codec = "remote"
    /\ calls[1].req = with_count(with_authorization(new("candles"), "other-token"), 5)
    /\ calls[1].pc = "done"
    /\ calls[1].out = Err(Validation("MissingInstrument"))
    /\ calls[1].sent = <<>>

NoInternalRetry ==
    codec = "remote"
    => \A p \in DOMAIN calls :
          /\ Len(calls[p].sent) <= 1
          /\ (calls[p].pc = "done" /\ ~calls[p].out.ok
              /\ calls[p].out.err.variant \in {"HttpError", "ApiError"})
             => Len(calls[p].sent) = 1

NoInternalRetryWitness ==
    /\ codec = "remote"
    /\ DecodeFailed(1)
    /\ calls[1].out = Err(HttpError(BodyErrorMsg))
    /\ Len(calls[1].sent) = 1

(***************************************************************************)
(* Several calls against one client                                        *)
(***************************************************************************)
\* C17: with several calls of remote() and a codec call interleaved against
\* one client, the client never changes, every request sent is the one the
\* call sends when run alone, and every finished call has the result it has
\* when run alone.
SharedClientSafety ==
    codec = "shared"
    => /\ client = TheClient
       /\ \A p \in DOMAIN calls :
             /\ calls[p].sent # <<>>
                => calls[p].sent = <<HttpRequest(TheClient, calls[p].req,
                                                 PathOf(calls[p].req))>>
             /\ calls[p].pc = "done"
                => calls[p].out = RemoteOutcome(TheClient, calls[p].req,
                                                [delivered |-> calls[p].delivered,
                                                 resp |-> calls[p].resp])
       /\ pc = "done"
          => result = IF origin = "json" THEN serints_deserialize(json)
                      ELSE Ok(serints_serialize(value))

SharedClientSafetyWitness ==
    /\ codec = "shared"
    /\ pc = "done"
    /\ calls[1].req.authorization = Some("other-token")
    /\ calls[1].pc = "done"
    /\ calls[1].out.ok
    /\ calls[2].pc = "responded"
    /\ calls[2].sent[1].bearer = "test-token"

(***************************************************************************)
(* The timestamp codec: what is accepted, what is rejected, what is sent   *)
(***************************************************************************)
\* The pieces of a received string: ten characters of date, nine of time,
\* then the fraction, then the zone.
EndsWith(s, z) == Len(s) >= Len(z) /\ SubSeq(s, Len(s) - Len(z) + 1, Len(s)) = z

DatePart(s) == SubSeq(s, 1, 10)

TimePart(s) == SubSeq(s, 11, 19)

ZonePart(s) ==
    IF \E z \in ZoneTexts \ {<<>>} : EndsWith(s, z) /\ Len(s) >= 19 + Len(z)
    THEN CHOOSE z \in ZoneTexts \ {<<>>} : EndsWith(s, z) /\ Len(s) >= 19 + Len(z)
    ELSE <<>>

FractionPart(s) == SubSeq(s, 20, Len(s) - Len(ZonePart(s)))

PossibleDates ==
    { <<"2", "0", "2", "3", "-", "1", "2", "-", "0", "1">>,
      <<"2", "0", "2", "4", "-", "0", "1", "-", "1", "5">>,
      <<"2", "0", "2", "4", "-", "0", "1", "-", "0", "1">>,
      <<"2", "0", "2", "4", "-", "0", "2", "-", "2", "9">> }

PossibleTimes ==
    { <<"T", "1", "5", ":", "3", "0", ":", "4", "5">>,
      <<"T", "0", "9", ":", "4", "5", ":", "3", "0">>,
      <<"T", "0", "0", ":", "0", "0", ":", "0", "0">>,
      <<"T", "2", "3", ":", "5", "9", ":", "5", "9">> }

\* No fraction, or a point followed by one to nine digits.
FractionOk(f) ==
    \/ f = <<>>
    \/ Len(f) \in 2..10 /\ f[1] = "." /\ \A i \in 2..Len(f) : IsDigit(f[i])

WithZone(s, z) == SubSeq(s, 1, Len(s) - Len(ZonePart(s))) \o z

ImpossibleDate == <<"2", "0", "2", "4", "-", "1", "3", "-", "4", "5">>

\* C18: a string other than "0" is never the absent timestamp; a possible
\* date and time with no fraction or with one to nine fractional digits,
\* followed by Z or by a numeric offset, decodes to a timestamp, and with
\* the offset +00:00 to the timestamp of the same string with Z, with
\* another offset to the instant shifted by it; a string without a zone, and
\* one with the date 2024-13-45, decode to an error.
TimestampAcceptance ==
    (codec = "dates" /\ Received /\ json.kind = "string" /\ json.text # <<"0">>)
    => LET s == json.text
       IN  /\ result # Ok(None)
           /\ (/\ Len(s) >= 20
               /\ DatePart(s) \in PossibleDates
               /\ TimePart(s) \in PossibleTimes
               /\ ZonePart(s) # <<>>
               /\ FractionOk(FractionPart(s)))
              => /\ result.ok /\ result.val # None
                 /\ result.val[1].nano = 0 <=> FractionPart(s) = <<>>
                 /\ ZonePart(s) = <<"+", "0", "0", ":", "0", "0">>
                    => result = serdates_deserialize(JsonString(WithZone(s, <<"Z">>)))
                 /\ ZonePart(s) \notin {<<"Z">>, <<"+", "0", "0", ":", "0", "0">>}
                    => result # serdates_deserialize(JsonString(WithZone(s, <<"Z">>)))
           /\ (Len(s) >= 19 /\ ZonePart(s) = <<>>) => ~result.ok
           /\ Len(s) < 19 => ~result.ok
           /\ (Len(s) >= 10 /\ DatePart(s) = ImpossibleDate) => ~result.ok
           /\ s = <<"2", "0", "2", "4", "-", "0", "1", "-", "0", "1", "T", "0", "0", ":", "0", "0", ":", "0", "0", "+", "0", "1", ":", "0", "0">>
              => result = Ok(Some(DateTime(2023, 12, 31, 23, 0, 0, 0)))
           /\ s = <<"2", "0", "2", "4", "-", "0", "1", "-", "1", "5", "T", "0", "9", ":", "4", "5", ":", "3", "0", ".", "5", "0", "0", "+", "0", "5", ":", "3", "0">>
              => result = Ok(Some(DateTime(2024, 1, 15, 4, 15, 30, 500000000)))
           /\ s = <<"2", "0", "2", "4", "-", "0", "2", "-", "2", "9", "T", "2", "3", ":", "5", "9", ":", "5", "9", "-", "0", "8", ":", "0", "0">>
              => result = Ok(Some(DateTime(2024, 3, 1, 7, 59, 59, 0)))

TimestampAcceptanceWitness ==
    /\ codec = "dates" /\ Received
    /\ json = JsonString(<<"2", "0", "2", "4", "-", "0", "2", "-", "2", "9", "T", "2", "3", ":", "5", "9", ":", "5", "9", "-", "0", "8", ":", "0", "0">>)
    /\ result = Ok(Some(DateTime(2024, 3, 1, 7, 59, 59, 0)))

\* C19: the timestamp codec decodes a JSON number, bool, object or array
\* to an error, never to a timestamp and never to the absent timestamp.
TimestampTypeRejection ==
    (codec = "dates" /\ Received /\ json.kind \in {"number", "bool", "object", "array"})
    => /\ ~result.ok
       /\ result.val = None
       /\ result.err = UnsupportedTimestampMsg

TimestampTypeRejectionWitness ==
    /\ codec = "dates" /\ Received
    /\ json = JsonNumber(<<"1", "2", "3">>)
    /\ ~result.ok

\* C20: a present timestamp is encoded as a JSON string: the date and the
\* time of day of the value in UTC, a fraction of the second exactly when
\* the nanoseconds are not zero, and the UTC offset.
TimestampEncodeForm ==
    (codec = "dates" /\ Encoded /\ value # None)
    => LET t == value[1]
           s == json.text
       IN  /\ json.kind = "string"
           /\ Len(s) >= 25
           /\ Num(s, 1, 4) = t.year /\ Num(s, 6, 2) = t.month /\ Num(s, 9, 2) = t.day
           /\ s[11] = "T"
           /\ Num(s, 12, 2) = t.hour /\ Num(s, 15, 2) = t.minute /\ Num(s, 18, 2) = t.second
           /\ EndsWith(s, <<"+", "0", "0", ":", "0", "0">>)
           /\ (\E i \in 1..Len(s) : s[i] = ".") <=> (t.nano # 0)
           /\ t.nano = 0 => Len(s) = 25
           /\ t.nano # 0 => /\ s[20] = "."
                            /\ Len(s) \in {29, 32, 35}
                            /\ Num(s, 21, Len(s) - 26) * Pow10(35 - Len(s)) = t.nano

TimestampEncodeFormWitness ==
    /\ codec = "dates" /\ Encoded
    /\ value = Some(DateTime(2024, 1, 15, 9, 45, 30, 0))
    /\ json = JsonString(<<"2", "0", "2", "4", "-", "0", "1", "-", "1", "5", "T", "0", "9", ":", "4", "5", ":", "3", "0", "+", "0", "0", ":", "0", "0">>)

(***************************************************************************)
(* The integer codec: decoding, encoding again, decoding again             *)
(***************************************************************************)
\* C21: a JSON value that the integer codec decodes without error, encoded
\* again, is null or a string, and decodes to what the first decoding gave.
EquivalenceLaw ==
    (codec = "ints" /\ origin = "json" /\ pc = "done" /\ rounds > 0)
    => /\ first.ok
       /\ json.kind \in {"null", "string"}
       /\ json = serints_serialize(first.val)
       /\ result = first

EquivalenceLawWitness ==
    /\ codec = "ints" /\ origin = "json" /\ pc = "done" /\ rounds = 1
    /\ first = Ok(Some(0))
    /\ json = JsonString(<<"0">>)
    /\ result = Ok(Some(0))

\* The strings of digits that are decoded, signed or not.
ComparedStrings == ShortStrings \cup EdgeStrings \cup NamedStrings

\* C30: "007" decodes to Some(7) and "+5" to Some(5); a string that decodes
\* to an integer is encoded again as the decimal form of that integer,
\* which is another string when the first has a "+" or leading zeros; and
\* another string decodes to the same result exactly when it is integer
\* text denoting the same value.
NonCanonicalStrings ==
    (codec = "ints" /\ Received /\ json.kind = "string")
    => /\ json.text = <<"0", "0", "7">> => result = Ok(Some(7))
       /\ json.text = <<"+", "5">> => result = Ok(Some(5))
       /\ result = serints_deserialize(json)
       /\ result.ok
          => /\ result.val # None
             /\ serints_serialize(result.val) = JsonString(Canonical(json.text))
             /\ (serints_serialize(result.val) = json) <=> (json.text = Canonical(json.text))
             /\ \A s \in ComparedStrings :
                   (serints_deserialize(JsonString(s)) = result)
                   <=> /\ IsIntegerText(s)
                       /\ DenotesI32(s)
                       /\ Canonical(s) = Canonical(json.text)

NonCanonicalStringsWitness ==
    /\ codec = "ints" /\ Received
    /\ json = JsonString(<<"+", "5">>)
    /\ result = Ok(Some(5))

(***************************************************************************)
(* Fields with and without a codec                                         *)
(***************************************************************************)
\* C22: in the candles query, count and dailyAlignment, which name no
\* codec, are written as JSON numbers and are not read from a JSON string,
\* while from and to, which name the timestamp codec, are written as
\* strings and read from a string, "0" being the absent timestamp.
FieldLevelOptIn ==
    codec = "query"
    => /\ (origin = "value" /\ pc \in {"decode", "done"})
          => LET q == value[1]
             IN  /\ q.count # None
                    => json.count = JsonNumber(NumberLiteral(q.count[1]))
                 /\ q.dailyAlignment # None
                    => json.dailyAlignment = JsonNumber(NumberLiteral(q.dailyAlignment[1]))
                 /\ q.from # None => json.from = JsonString(to_rfc3339(q.from[1]))
                 /\ q.to # None => json.to = JsonString(to_rfc3339(q.to[1]))
       /\ Received
          => /\ (json.count.kind = "string" \/ json.dailyAlignment.kind = "string")
                => ~result.ok
             /\ result.ok
                => /\ (result.val.count = Some(25)) <=> (json.count = JsonNumber(<<"2", "5">>))
                   /\ (result.val.count = None) <=> (json.count \in {Absent, JsonNull})
                   /\ (result.val.from = Some(SampleTime))
                      <=> (json.from = JsonString(SampleTimeText))
                   /\ (result.val.from = None)
                      <=> (json.from \in {JsonNull, JsonString(<<"0">>)})

FieldLevelOptInWitness ==
    /\ codec = "query" /\ Received
    /\ json.count = JsonString(<<"2", "5">>)
    /\ json.from = JsonString(SampleTimeText)
    /\ json.dailyAlignment = Absent
    /\ ~result.ok

\* The object {"count": "25", "from": "2024-01-15T09:45:30Z", "to": "0"}.
EndToEndInput ==
    [count |-> JsonString(<<"2", "5">>), from |-> JsonString(SampleTimeText),
     to |-> JsonString(<<"0">>)]

\* C23: with count under the integer codec and from and to under the
\* timestamp codec, the object {"count": "25", "from":
\* "2024-01-15T09:45:30Z", "to": "0"} decodes to count = Some(25),
\* from = Some(2024-01-15T09:45:30Z), to = None.
EndToEndDecode ==
    (codec = "struct" /\ pc = "done" /\ json = EndToEndInput)
    => result = Ok([count |-> Some(25), from |-> Some(SampleTime), to |-> None])

EndToEndDecodeWitness ==
    /\ codec = "struct" /\ pc = "done" /\ json = EndToEndInput
    /\ result.ok
    /\ result.val.count = Some(25) /\ result.val.to = None

(***************************************************************************)
(* remote(): the outcomes                                                  *)
(***************************************************************************)
\* A call to completion on an instrument endpoint that was answered with a
\* status that is not a success.
RefusedByServer(p) ==
    /\ calls[p].pc = "done"
    /\ calls[p].req.kind \in InstrumentKinds
    /\ calls[p].delivered
    /\ ~is_success(calls[p].resp.status)

\* The error code and message that the claim reads off an error body.
ExpectedCode(body) ==
    IF ~body.valid THEN "UNPARSEABLE_RESPONSE"
    ELSE IF body.errorCode.kind = "string" THEN body.errorCode.text
    ELSE "UNKNOWN_ERROR_CODE"

ExpectedMessage(body) ==
    IF ~body.valid THEN "Could not parse error response"
    ELSE IF body.errorMessage.kind = "string" THEN body.errorMessage.text
    ELSE "Unknown error"

\* C24 as stated: whenever the status is not a success, remote() returns
\* ApiError with that status and the code and message of the body.
NonSuccessIsAlwaysApiError ==
    codec = "remote"
    => \A p \in DOMAIN calls :
          RefusedByServer(p)
          => calls[p].out = Err(ApiError(calls[p].resp.status,
                                         ExpectedCode(calls[p].resp.body),
                                         ExpectedMessage(calls[p].resp.body)))

\* C24: when the status is not a success, remote() never returns Ok; when
\* the body of the response can be read, it returns ApiError with that
\* status, with the body's errorCode and errorMessage strings, each
\* replaced by its own default when missing or not a string, and with
\* "UNPARSEABLE_RESPONSE" / "Could not parse error response" when the body
\* is not JSON; when the body cannot be read, it returns HttpError.
NonSuccessMapping ==
    codec = "remote"
    => \A p \in DOMAIN calls :
          RefusedByServer(p)
          => /\ ~calls[p].out.ok
             /\ calls[p].resp.readable
                => calls[p].out = Err(ApiError(calls[p].resp.status,
                                               ExpectedCode(calls[p].resp.body),
                                               ExpectedMessage(calls[p].resp.body)))
             /\ ~calls[p].resp.readable
                => calls[p].out = Err(HttpError(BodyErrorMsg))

NonSuccessMappingWitness ==
    /\ codec = "remote"
    /\ RefusedByServer(1)
    /\ calls[1].resp.readable
    /\ calls[1].resp.body.valid
    /\ calls[1].resp.body.errorCode = Word("NOT_FOUND")
    /\ calls[1].resp.body.errorMessage = Absent
    /\ calls[1].out = Err(ApiError(404, "NOT_FOUND", "Unknown error"))

\* C25: on the instrument endpoints remote() returns Ok exactly when the
\* instrument was set, the send succeeded, the status was a success and the
\* body decoded; otherwise it returns Validation for a missing instrument,
\* HttpError for a failed send, an unreadable error body or a success body
\* that does not decode, and ApiError for a status that is not a success;
\* it never returns DeserializationError or OrderRejection.
OutcomePartition ==
    codec = "remote"
    => \A p \in DOMAIN calls :
          (calls[p].pc = "done" /\ calls[p].req.kind \in InstrumentKinds)
          => LET c == calls[p]
                 set == c.req.instrument # None
                 success == c.delivered /\ is_success(c.resp.status)
                 refused == c.delivered /\ ~is_success(c.resp.status)
                 decodes == c.resp.readable /\ c.resp.body.valid
                                /\ serdates_deserialize(c.resp.body.time).ok
             IN  /\ c.out.ok <=> (set /\ success /\ decodes)
                 /\ ~c.out.ok
                    => /\ c.out.val = None
                       /\ c.out.err.variant \in {"Validation", "HttpError", "ApiError"}
                       /\ (c.out.err.variant = "Validation") <=> ~set
                       /\ (c.out.err.variant = "HttpError")
                          <=> /\ set
                              /\ \/ ~c.delivered
                                 \/ refused /\ ~c.resp.readable
                                 \/ success /\ ~decodes
                       /\ (c.out.err.variant = "ApiError")
                          <=> (set /\ refused /\ c.resp.readable)

OutcomePartitionWitness ==
    /\ codec = "remote"
    /\ calls[1].pc = "done"
    /\ calls[1].req.kind = "orderbook"
    /\ calls[1].delivered
    /\ calls[1].resp.status = 201
    /\ calls[1].out = Ok([time |-> None])

(***************************************************************************)
(* remote(): the request that is sent                                      *)
(***************************************************************************)
\* The request without what with_authorization and
\* with_accept_datetime_format put in it.
WithoutHeader(req) == [req EXCEPT !.authorization = None, !.accept_datetime_format = None]

UrlConstruction ==
    codec = "remote"
    => \A p \in DOMAIN calls :
          calls[p].arg.kind \in InstrumentKinds
          => LET a == calls[p].arg
             IN  /\ a.uri \notin CustomUris => a.uri = DefaultUri(a.kind)
                 /\ calls[p].sent # <<>>
                    => LET url == calls[p].sent[1].url
                       IN  /\ a.instrument # None
                           /\ Len(url) = Len(a.uri) + 2
                           /\ url[1] = "https://"
                           /\ url[2] = client.host
                           /\ \A i \in 1..Len(a.uri) :
                                 url[i + 2] = IF a.uri[i] = "{instrument}"
                                              THEN a.instrument[1] ELSE a.uri[i]
                           /\ a.uri = <<"/v4/fixed">>
                              => url = <<"https://", "api-fxpractice.oanda.com", "/v4/fixed">>
                 /\ (calls[p].pc = "done" /\ a.instrument = None)
                    => /\ calls[p].out = Err(Validation("MissingInstrument"))
                       /\ calls[p].sent = <<>>

UrlConstructionWitness ==
    /\ codec = "remote"
    /\ calls[1].arg.uri = <<"/v4/", "{instrument}", "/mirror/", "{instrument}">>
    /\ Len(calls[1].sent) = 1
    /\ calls[1].sent[1].url
          = <<"https://", "api-fxpractice.oanda.com", "/v4/", "GBP_USD", "/mirror/", "GBP_USD">>

\* C29: a call of a method of Client with a request returns what remote()
\* returns for that request and that client: the same value or the same
\* error, with the one HTTP request remote() sends for a valid request and
\* none for one that is not, and with the client left as it was.
PureDelegation ==
    codec = "remote"
    => \A p \in DOMAIN calls :
          calls[p].via = "method"
          => /\ client = TheClient
             /\ calls[p].pc # "method" => calls[p].req = calls[p].arg
             /\ calls[p].sent \in {<<>>, <<HttpRequest(TheClient, calls[p].arg,
                                                      PathOf(calls[p].arg))>>}
             /\ calls[p].sent # <<>> => validate(calls[p].arg).ok
             /\ calls[p].pc = "done"
                => calls[p].out = RemoteOutcome(TheClient, calls[p].arg,
                                                [delivered |-> calls[p].delivered,
                                                 resp |-> calls[p].resp])

PureDelegationWitness ==
    /\ codec = "remote"
    /\ calls[1].via = "method"
    /\ calls[1].pc = "done"
    /\ calls[1].arg = new("positionbook")
    /\ calls[1].out = Err(Validation("MissingInstrument"))
    /\ calls[1].sent = <<>>

(***************************************************************************)
(* Building a request                                                      *)
(***************************************************************************)
\* What a field holds once its setter was given x.
Held(name, x) == IF name = "uri" THEN x ELSE Some(x)

\* The places in the list of applied setters where the setter is name.
Places(applied, name) == {i \in 1..Len(applied) : applied[i].setter = name}

Last(places) == CHOOSE i \in places : \A j \in places : j <= i

\* C26: a request from new() has the default template and no field set;
\* after any sequence of setters each field holds the argument of the last
\* setter applied to it, or what new() put there; one more setter changes
\* its own field only; and two setters of distinct fields give the same
\* request in either order.
BuilderFrame ==
    codec = "builder"
    => \A p \in DOMAIN calls :
          LET r == calls[p].req
              applied == calls[p].applied
          IN  /\ applied = <<>>
                 => /\ r.uri = <<"/v3/instruments/", "{instrument}", "/candles">>
                    /\ \A f \in Setters \ {"uri"} : r[f] = None
              /\ \A f \in DOMAIN r \ Setters : r[f] = new("candles")[f]
              /\ \A n \in Setters :
                    /\ r[n] = IF Places(applied, n) = {} THEN new("candles")[n]
                              ELSE Held(n, applied[Last(Places(applied, n))].arg)
                    /\ \A x \in SetterArgs(n) :
                          /\ Apply(n, r, x)[n] = Held(n, x)
                          /\ \A f \in DOMAIN r \ {n} : Apply(n, r, x)[f] = r[f]
                          /\ \A m \in Setters \ {n} :
                                \A y \in SetterArgs(m) :
                                   Apply(m, Apply(n, r, x), y) = Apply(n, Apply(m, r, y), x)

BuilderFrameWitness ==
    /\ codec = "builder"
    /\ Len(calls[1].applied) = 3
    /\ calls[1].applied[1].setter = "instrument" /\ calls[1].applied[1].arg = "EUR_USD"
    /\ calls[1].applied[2].setter = "count" /\ calls[1].applied[2].arg = 5
    /\ calls[1].applied[3].setter = "instrument" /\ calls[1].applied[3].arg = "GBP_USD"
    /\ calls[1].req.instrument = Some("GBP_USD")
    /\ calls[1].req.count = Some(5)

====
